---- MODULE Spec2Model ----
(***************************************************************************)
(* A model of the STH server (lib/sth_server.js) as a state machine: the   *)
(* POST /notify ingest path (header validation, handler, processAttributes,*)
(* storeRawData, storeAggregatedData and the callbacks of the store), the  *)
(* GET query path (header validation, handler, getRawData,                 *)
(* getAggregatedData, their callbacks and the deletion of a sent file),    *)
(* GET /version and the KPI functions.                                     *)
(* The store (sthDatabase) is external: each of its callbacks is an action *)
(* that may deliver an error or a success.                                 *)
(* The updates of one slot of an aggregated bucket follow the delta of the *)
(* aggregate engine as the specification of the store describes it.        *)
(***************************************************************************)
EXTENDS Integers, Sequences, FiniteSets, TLC

\* ---------------------------------------------------------------- bounds
\* attributes carried by one notification payload, over all its entries
MaxAttrs == 2
\* entries of the contextResponses array of one payload
MaxResponses == 2
\* characters of a string attribute value
MaxStrLen == 2
\* GET /version requests of a behaviour
MaxVersionRequests == 2
\* aggregate updates of one slot in a behaviour
MaxEvents == 3

\* ---------------------------------------------------------------- values
\* sthConfig.DATA_TO_STORE
DATA_TO_STORE == {"ONLY_RAW", "ONLY_AGGREGATED", "BOTH"}

SeqsUpTo(S, n) == UNION {[1..k -> S] : k \in 0..n}

\* A JSON value of an attribute, by its JavaScript type.  Strings are
\* sequences of characters; " " is a white space, "a" any other character.
Chars == {" ", "a"}
JSValue(t, n, s, b) == [t |-> t, n |-> n, s |-> s, b |-> b]
NumberValue(n) == JSValue("number", n, <<>>, FALSE)
StringValue(s) == JSValue("string", 0, s, FALSE)
BooleanValue(b) == JSValue("boolean", 0, <<>>, b)
ObjectValue == JSValue("object", 0, <<>>, FALSE)
ArrayValue == JSValue("array", 0, <<>>, FALSE)
NullValue == JSValue("null", 0, <<>>, FALSE)
UndefinedValue == JSValue("undefined", 0, <<>>, FALSE)

Numbers == {0, 5}
Strings == SeqsUpTo(Chars, MaxStrLen)
Values ==
  {NumberValue(n) : n \in Numbers} \cup {StringValue(s) : s \in Strings}
    \cup {BooleanValue(b) : b \in BOOLEAN}
    \cup {ObjectValue, ArrayValue, NullValue, UndefinedValue}

\* typeof(value)
TypeOf(v) ==
  CASE v.t = "array" -> "object"
    [] v.t = "null" -> "object"
    [] OTHER -> v.t

\* !value : the JavaScript falsy values
Falsy(v) ==
  \/ v.t = "undefined"
  \/ v.t = "null"
  \/ v.t = "boolean" /\ ~v.b
  \/ v.t = "number" /\ v.n = 0
  \/ v.t = "string" /\ Len(v.s) = 0

\* String.prototype.trim: white space removed at both ends
RECURSIVE TrimLeft(_)
TrimLeft(s) ==
  IF s # <<>> /\ Head(s) = " " THEN TrimLeft(Tail(s)) ELSE s

RECURSIVE TrimRight(_)
TrimRight(s) ==
  IF s # <<>> /\ s[Len(s)] = " " THEN TrimRight(SubSeq(s, 1, Len(s) - 1)) ELSE s

Trim(s) == TrimRight(TrimLeft(s))

\* ---------------------------------------------------------------- state
VARIABLES
  sthConfig,        \* [SHOULD_STORE, IGNORE_BLANK_SPACES]: the configuration
  attendedRequests, \* the module-level KPI counter
  request,          \* request[r]: stage of the request, its headers and payload
  counterObj,       \* counterObj[r].counter: completion counter of processAttributes
  totalTasks,       \* totalTasks[r]: the total computed by processAttributes
  tasks,            \* tasks[r][<<k, family>>]: the store calls of the k-th dispatched attribute
  replies,          \* replies[r]: the invocations of hapi's reply, in order
  firstError,       \* firstError[r]: the first error a store callback delivered
  getCollectionCalls, \* the calls of sthDatabase.getCollection, with their arguments
  query,            \* query[q]: a GET query, from its arrival to its response
  bucket,           \* the aggregate updates of one slot of one namespace: the
                    \* updates issued and not yet applied, those applied, and
                    \* the slot
  kpi               \* [returned]: what getKPIs last returned (-1: never called);
                    \* [inbound]: the HTTP requests the server routed since the
                    \* last resetKPIs; [epoch]: flips at each resetKPIs;
                    \* [versions]: the GET /version requests answered

vars ==
  <<sthConfig, attendedRequests, request, counterObj, totalTasks, tasks, replies,
    firstError, getCollectionCalls, query, bucket, kpi>>

\* the notifications (POST /notify requests) of a behaviour
Requests == {1}

Families == {"raw", "aggr"}
TaskIds == (1..MaxAttrs) \X Families

\* ------------------------------------------------------------- payloads
\* an attribute of a contextElement
Attribute(v) == [value |-> v]

\* an entry of contextResponses: contextElement may be missing, and its
\* attributes may be missing ("undefined"), a non-array ("object") or an array
Entry(ce, kind, attrs) == [contextElement |-> ce, attributes |-> kind, items |-> attrs]

\* the entries that carry at most n attributes with values in V
EntriesOver(V, n) ==
  {Entry(FALSE, "undefined", <<>>), Entry(TRUE, "undefined", <<>>),
   Entry(TRUE, "object", <<>>)}
    \cup {Entry(TRUE, "array", a) : a \in SeqsUpTo({Attribute(v) : v \in V}, n)}

\* the contextResponses arrays of at most m entries that carry at most n
\* attributes in all
RECURSIVE ContextResponsesOver(_, _, _)
ContextResponsesOver(V, n, m) ==
  IF m = 0 THEN {<<>>}
  ELSE {<<>>} \cup
       UNION {{<<e>> \o rest : rest \in ContextResponsesOver(V, n - Len(e.items), m - 1)} :
                e \in EntriesOver(V, n)}

\* request.payload: missing, or an object whose contextResponses is missing
\* ("undefined"), a non-array ("object") or an array of entries
Payload(present, kind, cr) == [present |-> present, contextResponses |-> kind, items |-> cr]

PayloadsOver(V, n, m) ==
  {Payload(FALSE, "undefined", <<>>), Payload(TRUE, "undefined", <<>>),
   Payload(TRUE, "object", <<>>)}
    \cup {Payload(TRUE, "array", cr) : cr \in ContextResponsesOver(V, n, m)}

\* the values of the notifications whose store calls are followed to their
\* completion: one the filter retains and one it drops
NotifiedValues == {NumberValue(5), NullValue}

\* the payloads of those notifications: at most one contextResponses entry
NotifiedPayloads == PayloadsOver(NotifiedValues, MaxAttrs, 1)

\* the payloads on which the two passes over a payload are compared: every
\* value in turn, and several entries of attributes
FilteredPayloads ==
  PayloadsOver(Values, 1, MaxResponses)
    \cup PayloadsOver(NotifiedValues, MaxAttrs, MaxResponses)

\* ----------------------------------------------------- getTotalAttributes
\* the condition of `continue` in getTotalAttributes
SkippedByTotal(attribute) ==
  \/ Falsy(attribute.value)
  \/ TypeOf(attribute.value) # "string" /\ TypeOf(attribute.value) # "number"
  \/ /\ sthConfig.IGNORE_BLANK_SPACES
     /\ TypeOf(attribute.value) = "string"
     /\ Trim(attribute.value.s) = <<>>

\* the guard of both passes over contextResponses[i]
HasAttributesArray(entry) ==
  entry.contextElement /\ entry.attributes # "undefined" /\ entry.attributes = "array"

RECURSIVE CountRetained(_)
CountRetained(attributes) ==
  IF attributes = <<>> THEN 0
  ELSE (IF SkippedByTotal(Head(attributes)) THEN 0 ELSE 1) + CountRetained(Tail(attributes))

RECURSIVE getTotalAttributes(_)
getTotalAttributes(contextResponses) ==
  IF contextResponses = <<>> THEN 0
  ELSE (IF HasAttributesArray(Head(contextResponses))
          THEN CountRetained(Head(contextResponses).items) ELSE 0)
       + getTotalAttributes(Tail(contextResponses))

\* ------------------------------------------------------ processAttributes
\* a loop that skips the blank strings only
SkippedByProcessBlankOnly(attribute) ==
  /\ sthConfig.IGNORE_BLANK_SPACES
  /\ TypeOf(attribute.value) = "string"
  /\ Trim(attribute.value.s) = <<>>

\* the condition of `continue` in the loop of processAttributes
SkippedByProcess(attribute) ==
  \/ Falsy(attribute.value)
  \/ TypeOf(attribute.value) # "string" /\ TypeOf(attribute.value) # "number"
  \/ /\ sthConfig.IGNORE_BLANK_SPACES
     /\ TypeOf(attribute.value) = "string"
     /\ Trim(attribute.value.s) = <<>>

\* the attributes the loop of processAttributes dispatches, in order, each
\* as <<i, j>>: attribute j of contextResponses[i]
RECURSIVE DispatchedOf(_, _, _)
DispatchedOf(attributes, i, j) ==
  IF j > Len(attributes) THEN <<>>
  ELSE (IF SkippedByProcess(attributes[j]) THEN <<>> ELSE << <<i, j>> >>)
       \o DispatchedOf(attributes, i, j + 1)

RECURSIVE Dispatched(_, _)
Dispatched(contextResponses, i) ==
  IF i > Len(contextResponses) THEN <<>>
  ELSE (IF HasAttributesArray(contextResponses[i])
          THEN DispatchedOf(contextResponses[i].items, i, 1) ELSE <<>>)
       \o Dispatched(contextResponses, i + 1)

\* ---------------------------------------------------------------- replies
\* the errors of the store: the error of operation op ("getCollection" or
\* "store") of the k-th dispatched attribute in a family
NoError == <<>>
StoreError(k, family, op) == <<k, family, op>>

\* what hapi sends for reply(err): the error (500) or an empty 200
Reply(err) ==
  IF err = NoError
    THEN [statusCode |-> 200, error |-> NoError, validation |-> <<>>]
    ELSE [statusCode |-> 500, error |-> err, validation |-> <<>>]

\* boom.badRequest(message) with output.payload.validation = {source, keys}
BadRequest(source, keys) ==
  [statusCode |-> 400, error |-> <<"Bad Request">>, validation |-> <<source, keys>>]

\* ------------------------------------------------------------ the headers
DEFAULT_SERVICE == "default_service"
DEFAULT_SERVICE_PATH == "/default_path"
Headers(service, servicePath) ==
  [service |-> service, servicePath |-> servicePath]
HeaderSets ==
  {Headers(s, p) : s \in {"undefined", "service"}, p \in {"undefined", "/path"}}

\* the headers of the notifications whose store calls are followed to their
\* completion: both missing, or both present
NotifiedHeaders == {Headers("undefined", "undefined"), Headers("service", "/path")}

\* ------------------------------------------------------------------ tasks
\* a store call sequence of one dispatched attribute in one family:
\*   st: "none" (not dispatched), "getCollection" (getCollection issued, its
\*   callback pending), "store" (the write issued, its callback pending),
\*   "skipped" (collection obtained, no write for the store mode), "done"
\*   err: the error its callback delivered; writes: the writes issued
Task(st, attr, err, writes) == [st |-> st, attr |-> attr, err |-> err, writes |-> writes]
NoTask == Task("none", <<>>, NoError, 0)

\* the store calls of a retained attribute as processAttributes leaves them:
\* storeRawData and storeAggregatedData were both called and each issued its
\* getCollection
DispatchedTaskRawFirst(family, attr) ==
  IF family = "raw" THEN Task("getCollection", attr, NoError, 0) ELSE NoTask

DispatchedTask(family, attr) == Task("getCollection", attr, NoError, 0)

\* the check of an empty attribute list, never taken
NothingToProcessNever(totalAttributes) == totalAttributes < 0

\* totalAttributes === 0 in processAttributes
NothingToProcess(totalAttributes) == totalAttributes = 0

\* totalTasks, the store mode forgotten
TotalTasksDoubled(totalAttributes) == 2 * totalAttributes

\* totalTasks of processAttributes
TotalTasksOf(totalAttributes) ==
  IF sthConfig.SHOULD_STORE = "BOTH" THEN 2 * totalAttributes ELSE 1 * totalAttributes

\* the raw write, whatever the store mode
ShouldStoreRawAlways == TRUE

\* the guard of sthDatabase.storeRawData in storeRawData
ShouldStoreRaw == sthConfig.SHOULD_STORE = "ONLY_RAW" \/ sthConfig.SHOULD_STORE = "BOTH"

\* the guard of sthDatabase.storeAggregatedData in storeAggregatedData
ShouldStoreAggregated ==
  sthConfig.SHOULD_STORE = "ONLY_AGGREGATED" \/ sthConfig.SHOULD_STORE = "BOTH"

\* the comparison with >= for ===
ReachesTotalOrMore(counter, total) == counter + 1 >= total

\* the comparison with the counter incremented after it
ReachesTotalBeforeIncrement(counter, total) == counter = total

\* ++counterObj.counter === totalTasks
ReachesTotal(counter, total) == counter + 1 = total

\* the reply with the first error recorded, for the error of the callback
CountAndReplyFirstError(r, err) ==
  /\ counterObj' = [counterObj EXCEPT ![r].counter = @ + 1]
  /\ replies' =
       IF ReachesTotal(counterObj[r].counter, totalTasks[r])
         THEN [replies EXCEPT
                 ![r] = Append(@, Reply(IF firstError[r] # NoError
                                          THEN firstError[r] ELSE err))]
         ELSE replies
  /\ firstError' =
       IF err # NoError /\ firstError[r] = NoError
         THEN [firstError EXCEPT ![r] = err]
         ELSE firstError

\* the count kept in one counter for all the notifications in flight
CountAndReplyShared(r, err) ==
  LET shared == CHOOSE x \in DOMAIN counterObj : \A y \in DOMAIN counterObj : x <= y
  IN  /\ counterObj' = [counterObj EXCEPT ![shared].counter = @ + 1]
      /\ replies' =
           IF ReachesTotal(counterObj[shared].counter, totalTasks[r])
             THEN [replies EXCEPT ![r] = Append(@, Reply(err))]
             ELSE replies
      /\ firstError' =
           IF err # NoError /\ firstError[r] = NoError
             THEN [firstError EXCEPT ![r] = err]
             ELSE firstError

\* if (++counterObj.counter === totalTasks) reply(err), in a store callback
\* that delivered err
CountAndReply(r, err) ==
  /\ counterObj' = [counterObj EXCEPT ![r].counter = @ + 1]
  /\ replies' =
       IF ReachesTotal(counterObj[r].counter, totalTasks[r])
         THEN [replies EXCEPT ![r] = Append(@, Reply(err))]
         ELSE replies
  /\ firstError' =
       IF err # NoError /\ firstError[r] = NoError
         THEN [firstError EXCEPT ![r] = err]
         ELSE firstError

\* attendedRequests++
AttendedTwice(n) == n + 2

Attended(n) == n + 1

\* the headers validation of POST /notify leaves in the request: a missing
\* fiware-service or fiware-servicepath takes its default
DefaultedHeadersNever(headers) == headers

DefaultedHeaders(headers) ==
  Headers(
    IF headers.service = "undefined" THEN DEFAULT_SERVICE ELSE headers.service,
    IF headers.servicePath = "undefined"
      THEN DEFAULT_SERVICE_PATH ELSE headers.servicePath)

\* the options object of a sthDatabase.getCollection call
CollectionOptions(isAggregated, shouldCreate, shouldStoreHash, shouldTruncate) ==
  [isAggregated |-> isAggregated, shouldCreate |-> shouldCreate,
   shouldStoreHash |-> shouldStoreHash, shouldTruncate |-> shouldTruncate]

\* a call of sthDatabase.getCollection: who called (the k-th dispatched
\* attribute of a notification, or a query with k = 0), the service and
\* service path of its first argument, and its options
GetCollectionCall(endpoint, id, k, headers, options) ==
  [endpoint |-> endpoint, id |-> id, k |-> k, service |-> headers.service,
   servicePath |-> headers.servicePath, options |-> options]

\* the getCollection call of storeRawData
StoreRawCollectionCall(r, k) ==
  GetCollectionCall("notify", r, k, request[r].headers,
                    CollectionOptions(FALSE, TRUE, TRUE, TRUE))

\* the getCollection call of storeAggregatedData
StoreAggregatedCollectionCall(r, k) ==
  GetCollectionCall("notify", r, k, request[r].headers,
                    CollectionOptions(TRUE, TRUE, TRUE, TRUE))

\* ------------------------------------------------------ the aggregate slot
\* the values whose aggregate updates are followed: numbers and strings the
\* filter of the notifications retains
AggregatedNumbers == {NumberValue(-1), NumberValue(2), NumberValue(5)}
AggregatedStrings == {StringValue(<<"a">>), StringValue(<<"a", "a">>)}
AggregatedValues == AggregatedNumbers \cup AggregatedStrings

Min(a, b) == IF a <= b THEN a ELSE b
Max(a, b) == IF a >= b THEN a ELSE b

\* a slot of a bucket: {samples, sum, sum2, min, max} for numbers and
\* {samples, occur} for strings
EmptySlot ==
  [samples |-> 0, sum |-> 0, sum2 |-> 0, min |-> 0, max |-> 0,
   occur |-> [v \in AggregatedStrings |-> 0]]

\* the delta of an event, the last value taken for min and max
DeltaLastWins(slot, v) ==
  IF v.t = "number"
    THEN [slot EXCEPT !.samples = @ + 1, !.sum = @ + v.n, !.sum2 = @ + v.n * v.n,
                      !.min = v.n, !.max = v.n]
    ELSE [slot EXCEPT !.samples = @ + 1, !.occur[v] = @ + 1]

\* the delta of an event with value v on its slot:
\*   numeric: samples += 1; sum += v; sum2 += v.v; min = min(min, v) if
\*   samples > 1 else v; max likewise.  string: samples += 1; occur[v] += 1
Delta(slot, v) ==
  IF v.t = "number"
    THEN [slot EXCEPT !.samples = @ + 1, !.sum = @ + v.n, !.sum2 = @ + v.n * v.n,
                      !.min = IF slot.samples + 1 > 1 THEN Min(@, v.n) ELSE v.n,
                      !.max = IF slot.samples + 1 > 1 THEN Max(@, v.n) ELSE v.n]
    ELSE [slot EXCEPT !.samples = @ + 1, !.occur[v] = @ + 1]

\* no update issued yet
EmptyBucket ==
  [pending |-> [v \in AggregatedValues |-> 0],
   applied |-> [v \in AggregatedValues |-> 0],
   slot |-> EmptySlot]

\* ---------------------------------------------------------------- queries
\* the GET queries of a behaviour
Queries == {1}

\* the headers of a GET query: fiware-service, fiware-servicepath and the
\* Unica-Correlator ("undefined" when the header is missing)
QueryHeaders(service, servicePath, correlator) ==
  [service |-> service, servicePath |-> servicePath, correlator |-> correlator]
QueryHeaderSets ==
  {QueryHeaders(s, p, c) :
     s \in {"undefined", "service"}, p \in {"undefined", "/path"},
     c \in {"undefined", "corr-1"}}

\* request.params: the entity and attribute named by the path
PathParams(entityId, entityType, attrName) ==
  [entityId |-> entityId, entityType |-> entityType, attrName |-> attrName]
PathParamSets == {PathParams("e1", "t1", "a1"), PathParams("e2", "t2", "a2")}

\* String.prototype.toLowerCase, on the letters of the file types
LowerChar(c) ==
  CASE c = "C" -> "c"
    [] c = "S" -> "s"
    [] c = "V" -> "v"
    [] OTHER -> c
ToLowerCase(s) == [i \in DOMAIN s |-> LowerChar(s[i])]

CSV == <<"c", "s", "v">>

\* request.query after the joi validation of the route: lastN, hLimit and
\* hOffset are integers > -1, aggrMethod and aggrPeriod one of their valid
\* names, filetype a non empty string; each is optional
QueryParams(lastN, hLimit, hOffset, filetype, aggrMethod, aggrPeriod) ==
  [lastN |-> lastN, hLimit |-> hLimit, hOffset |-> hOffset, filetype |-> filetype,
   aggrMethod |-> aggrMethod, aggrPeriod |-> aggrPeriod]
OptionalIntegers == {UndefinedValue, NumberValue(0), NumberValue(5)}
FileTypes ==
  {UndefinedValue, StringValue(CSV), StringValue(<<"C", "S", "V">>),
   StringValue(<<"a">>)}
AggrMethods == {UndefinedValue, StringValue(<<"m", "a", "x">>)}
AggrPeriods == {UndefinedValue, StringValue(<<"d", "a", "y">>)}
QueryParamSets ==
  {QueryParams(n, l, o, f, m, p) :
     n \in OptionalIntegers, l \in OptionalIntegers, o \in OptionalIntegers,
     f \in FileTypes, m \in AggrMethods, p \in AggrPeriods}
NoQueryParams ==
  QueryParams(UndefinedValue, UndefinedValue, UndefinedValue, UndefinedValue,
              UndefinedValue, UndefinedValue)

\* (x || x === 0)
TruthyOrZero(v) == ~Falsy(v) \/ v = NumberValue(0)

\* the first condition of the GET handler: the query asks for raw data
AsksRawData(params) ==
  \/ TruthyOrZero(params.lastN)
  \/ TruthyOrZero(params.hLimit) /\ TruthyOrZero(params.hOffset)
  \/ ~Falsy(params.filetype) /\ ToLowerCase(params.filetype.s) = CSV

\* the second condition of the GET handler: the query asks for aggregated data
AsksAggregatedDataEither(params) ==
  ~Falsy(params.aggrMethod) \/ ~Falsy(params.aggrPeriod)

AsksAggregatedData(params) ==
  ~Falsy(params.aggrMethod) /\ ~Falsy(params.aggrPeriod)

\* the branch of the GET handler a query takes
BranchOfAggregatedFirst(params) ==
  IF AsksAggregatedData(params) THEN "aggr"
  ELSE IF AsksRawData(params) THEN "raw"
  ELSE "error"

BranchOf(params) ==
  IF AsksRawData(params) THEN "raw"
  ELSE IF AsksAggregatedData(params) THEN "aggr"
  ELSE "error"

\* the keys of the validation detail of the handler's 400
QUERY_KEYS == <<"lastN", "hLimit", "hOffset", "filetype", "aggrMethod", "aggrPeriod">>

\* what the store hands to the callback of a data read
\*   type "null", "array" (of length items), "stream", or "string" (a file
\*   path, as its segments between path separators)
Result(type, length, path) == [type |-> type, length |-> length, path |-> path]
RawResults ==
  {Result("null", 0, <<>>), Result("array", 0, <<>>), Result("array", 2, <<>>),
   Result("stream", 0, <<>>), Result("string", 0, <<>>),
   Result("string", 1, <<"e1.csv">>), Result("string", 2, <<"tmp", "e1.csv">>)}
AggregatedResults ==
  {Result("null", 0, <<>>), Result("array", 0, <<>>), Result("array", 2, <<>>)}

\* !result
NoResult(result) ==
  result.type = "null" \/ (result.type = "string" /\ result.length = 0)

\* the emptiness test of the raw data callback:
\* !result || !(result.length || result instanceof stream)
RawResultIsEmpty(result) ==
  NoResult(result) \/ ~(result.length # 0 \/ result.type = "stream")

\* the emptiness test of the aggregated data callback: !result || !result.length
AggregatedResultIsEmpty(result) ==
  NoResult(result) \/ result.length = 0

\* the file name, taken before the first path separator
FileNameFirst(path) == path[1]

\* result.substring(result.lastIndexOf(path.sep) + 1)
FileName(path) == path[Len(path)]

\* the errors of the store on the query path
CollectionErrors == {"NotFound", "StoreError"}
CollectionError(kind) == <<"getCollection", kind>>
ReadError(family) == <<"read", family>>

\* a response of the query path: the status code, the error and validation
\* detail of an error response, the body and the headers set on the response
QueryResponse(statusCode, error, validation, body, headers) ==
  [statusCode |-> statusCode, error |-> error, validation |-> validation,
   body |-> body, headers |-> headers]

\* sthHelper.getNGSIPayload(entityId, entityType, attrName, values) replied
NGSIResponse(params, values) ==
  QueryResponse(200, NoError, <<>>,
                <<"ngsi", params.entityId, params.entityType, params.attrName, values>>,
                {})

\* sthHelper.getEmptyResponse()
EmptyResponse == Result("array", 0, <<>>)

\* reply(err) for an error of the store
ErrorResponse(err) == QueryResponse(500, err, <<>>, <<>>, {})

\* a boom.badRequest with its validation detail, as a response
BadRequestResponse(source, keys) ==
  QueryResponse(400, <<"Bad Request">>, <<source, keys>>, <<>>, {})

\* response.header(name, value)
WithHeader(response, name, value) ==
  [response EXCEPT !.headers = @ \cup {<<name, value>>}]

\* if (unicaCorrelatorPassed) response.header('Unica-Correlator', ...)
WithCorrelator(response, correlator) ==
  IF correlator # "undefined"
    THEN WithHeader(response, "Unica-Correlator", correlator)
    ELSE response

\* the file of a CSV response: its path, whether the finish listener is still
\* registered, whether the response emitted finish, the fs.unlink calls made,
\* and the outcome the last one reported
NoFile ==
  [path |-> <<>>, listening |-> FALSE, finished |-> FALSE, unlinks |-> 0,
   unlinked |-> "none"]

\* reply.file(result) and response.once('finish', ...)
FileDeletedOnSend(path) ==
  [path |-> path, listening |-> FALSE, finished |-> FALSE, unlinks |-> 1,
   unlinked |-> "pending"]

FileSent(path) ==
  [path |-> path, listening |-> TRUE, finished |-> FALSE, unlinks |-> 0,
   unlinked |-> "none"]

\* a query that has not arrived.  stage: "none", "rejected" or "validated" by
\* the headers validation, "handled"; nextCalls: the calls of next of the
\* headers validation; branches: the branches of the handler that ran;
\* pending: the store callback awaited ("getCollection", "read") or "done";
\* delivered: the <<err, result>> the store handed to the callbacks; replies:
\* the responses, in order; file: the file of a CSV response
NoQuery ==
  [stage |-> "none", headers |-> QueryHeaders("undefined", "undefined", "undefined"),
   params |-> PathParams("", "", ""), query |-> NoQueryParams,
   nextCalls |-> <<>>, branches |-> <<>>, pending |-> "none", delivered |-> <<>>,
   replies |-> <<>>, file |-> NoFile]

\* ---------------------------------------------------------------- actions
\* the state after startServer, for the notifications R and the queries Q to come
InitOver(R, Q) ==
  /\ sthConfig \in [SHOULD_STORE : DATA_TO_STORE, IGNORE_BLANK_SPACES : BOOLEAN]
  /\ attendedRequests = 0
  /\ request =
       [r \in R |->
          [stage |-> "none", received |-> Headers("undefined", "undefined"),
           headers |-> Headers("undefined", "undefined"),
           payload |-> Payload(FALSE, "undefined", <<>>)]]
  /\ counterObj = [r \in R |-> [counter |-> 0]]
  /\ totalTasks = [r \in R |-> 0]
  /\ tasks = [r \in R |-> [t \in TaskIds |-> NoTask]]
  /\ replies = [r \in R |-> <<>>]
  /\ firstError = [r \in R |-> NoError]
  /\ getCollectionCalls = {}
  /\ query = [q \in Q |-> NoQuery]
  /\ kpi = [returned |-> -1, inbound |-> 0, epoch |-> 0, versions |-> 0]
  /\ bucket = EmptyBucket

\* the notifications of a behaviour arrive at a server that receives no query
Init == InitOver(Requests, {})

\* config.validate.headers of POST /notify, for a request that arrives with
\* the given headers and payload
NotifyValidateHeaders(r, headers, payload) ==
  /\ request[r].stage = "none"
  /\ attendedRequests' = Attended(attendedRequests)
  /\ request' =
       [request EXCEPT
          ![r] = [stage |-> "validated", received |-> headers,
                  headers |-> DefaultedHeaders(headers), payload |-> payload]]
  /\ kpi' = [kpi EXCEPT !.inbound = @ + 1]
  /\ UNCHANGED <<bucket, sthConfig, counterObj, totalTasks, tasks, replies, firstError,
                 getCollectionCalls, query>>

\* the if of the POST /notify handler
WellFormed(payload) ==
  payload.present /\ payload.contextResponses # "undefined"
    /\ payload.contextResponses = "array"

\* processAttributes(recvTime, request, reply)
processAttributes(r) ==
  LET contextResponses == request[r].payload.items
      totalAttributes == getTotalAttributes(contextResponses)
      dispatched == Dispatched(contextResponses, 1)
  IN  /\ totalTasks' = [totalTasks EXCEPT ![r] = TotalTasksOf(totalAttributes)]
      /\ IF NothingToProcess(totalAttributes)
           THEN /\ replies' =
                     [replies EXCEPT
                        ![r] = Append(@, BadRequest("payload", <<"attributes">>))]
                /\ UNCHANGED <<tasks, getCollectionCalls>>
           ELSE /\ tasks' =
                     [tasks EXCEPT
                        ![r] = [t \in TaskIds |->
                                  IF t[1] <= Len(dispatched)
                                    THEN DispatchedTask(t[2], dispatched[t[1]])
                                    ELSE NoTask]]
                /\ getCollectionCalls' =
                     getCollectionCalls
                       \cup {StoreRawCollectionCall(r, k) : k \in 1..Len(dispatched)}
                       \cup {StoreAggregatedCollectionCall(r, k) :
                               k \in 1..Len(dispatched)}
                /\ UNCHANGED replies

\* the handler of POST /notify
NotifyHandler(r) ==
  /\ request[r].stage = "validated"
  /\ request' = [request EXCEPT ![r].stage = "handled"]
  /\ IF WellFormed(request[r].payload)
       THEN processAttributes(r)
       ELSE UNCHANGED <<totalTasks, tasks, replies, getCollectionCalls>>
  /\ UNCHANGED <<bucket, sthConfig, attendedRequests, counterObj, firstError, query, kpi>>

\* the callback storeRawData passes to sthDatabase.getCollection
RawCollectionCallback(r, k, failed) ==
  LET t == <<k, "raw">>
      err == IF failed THEN StoreError(k, "raw", "getCollection") ELSE NoError
  IN  /\ tasks[r][t].st = "getCollection"
      /\ IF err # NoError
           THEN /\ CountAndReply(r, err)
                /\ tasks' = [tasks EXCEPT ![r][t].st = "done", ![r][t].err = err]
           ELSE /\ IF ShouldStoreRaw
                     THEN tasks' = [tasks EXCEPT ![r][t].st = "store",
                                                 ![r][t].writes = @ + 1]
                     ELSE tasks' = [tasks EXCEPT ![r][t].st = "skipped"]
                /\ UNCHANGED <<counterObj, replies, firstError>>
      /\ UNCHANGED <<bucket, sthConfig, attendedRequests, request, totalTasks,
                     getCollectionCalls, query, kpi>>

\* the callback storeRawData passes to sthDatabase.storeRawData
RawStoredCallback(r, k, failed) ==
  LET t == <<k, "raw">>
      err == IF failed THEN StoreError(k, "raw", "store") ELSE NoError
  IN  /\ tasks[r][t].st = "store"
      /\ CountAndReply(r, err)
      /\ tasks' = [tasks EXCEPT ![r][t].st = "done", ![r][t].err = err]
      /\ UNCHANGED <<bucket, sthConfig, attendedRequests, request, totalTasks,
                     getCollectionCalls, query, kpi>>

\* the callback storeAggregatedData passes to sthDatabase.getCollection
AggregatedCollectionCallback(r, k, failed) ==
  LET t == <<k, "aggr">>
      err == IF failed THEN StoreError(k, "aggr", "getCollection") ELSE NoError
  IN  /\ tasks[r][t].st = "getCollection"
      /\ IF err # NoError
           THEN /\ CountAndReply(r, err)
                /\ tasks' = [tasks EXCEPT ![r][t].st = "done", ![r][t].err = err]
           ELSE /\ IF ShouldStoreAggregated
                     THEN tasks' = [tasks EXCEPT ![r][t].st = "store",
                                                 ![r][t].writes = @ + 1]
                     ELSE tasks' = [tasks EXCEPT ![r][t].st = "skipped"]
                /\ UNCHANGED <<counterObj, replies, firstError>>
      /\ UNCHANGED <<bucket, sthConfig, attendedRequests, request, totalTasks,
                     getCollectionCalls, query, kpi>>

\* the callback storeAggregatedData passes to sthDatabase.storeAggregatedData
AggregatedStoredCallback(r, k, failed) ==
  LET t == <<k, "aggr">>
      err == IF failed THEN StoreError(k, "aggr", "store") ELSE NoError
  IN  /\ tasks[r][t].st = "store"
      /\ CountAndReply(r, err)
      /\ tasks' = [tasks EXCEPT ![r][t].st = "done", ![r][t].err = err]
      /\ UNCHANGED <<bucket, sthConfig, attendedRequests, request, totalTasks,
                     getCollectionCalls, query, kpi>>

Next ==
  \/ \E r \in DOMAIN request :
       /\ request[r].stage = "none"
       /\ \E h \in NotifiedHeaders, p \in NotifiedPayloads :
            NotifyValidateHeaders(r, h, p)
  \/ \E r \in DOMAIN request : NotifyHandler(r)
  \/ \E r \in DOMAIN request, k \in 1..MaxAttrs, failed \in BOOLEAN :
       RawCollectionCallback(r, k, failed)
  \/ \E r \in DOMAIN request, k \in 1..MaxAttrs, failed \in BOOLEAN :
       RawStoredCallback(r, k, failed)
  \/ \E r \in DOMAIN request, k \in 1..MaxAttrs, failed \in BOOLEAN :
       AggregatedCollectionCallback(r, k, failed)
  \/ \E r \in DOMAIN request, k \in 1..MaxAttrs, failed \in BOOLEAN :
       AggregatedStoredCallback(r, k, failed)

\* the values of NotifiedPayloads are no strings: IGNORE_BLANK_SPACES, which
\* is read for strings only, is left at one value
InitNotified == Init /\ sthConfig.IGNORE_BLANK_SPACES

Spec == InitNotified /\ [][Next]_vars

\* the same request handling, for the payloads of FilteredPayloads, up to the
\* dispatch of the store calls
NextFilter ==
  \/ \E r \in DOMAIN request :
       /\ request[r].stage = "none"
       /\ \E h \in HeaderSets, p \in FilteredPayloads :
            NotifyValidateHeaders(r, h, p)
  \/ \E r \in DOMAIN request : NotifyHandler(r)

SpecFilter == Init /\ [][NextFilter]_vars

\* the store invokes every callback it was given
Fairness ==
  \A r \in Requests, k \in 1..MaxAttrs :
    /\ WF_vars(\E failed \in BOOLEAN : RawCollectionCallback(r, k, failed))
    /\ WF_vars(\E failed \in BOOLEAN : RawStoredCallback(r, k, failed))
    /\ WF_vars(\E failed \in BOOLEAN : AggregatedCollectionCallback(r, k, failed))
    /\ WF_vars(\E failed \in BOOLEAN : AggregatedStoredCallback(r, k, failed))

FairSpec == Spec /\ Fairness

\* ------------------------------------------------------ the query path
\* what the first callback of getRawData and getAggregatedData replies when
\* getCollection delivered an error
CollectionErrorSurfaced(params, err) == ErrorResponse(err)

CollectionErrorResponse(params, err) == NGSIResponse(params, EmptyResponse)

\* what the data callback of getRawData replies, before the correlator header
RawDataErrorSwallowed(params, err, result) ==
  NGSIResponse(params, EmptyResponse)

RawDataResponse(params, err, result) ==
  IF err # NoError THEN ErrorResponse(err)
  ELSE IF RawResultIsEmpty(result) THEN NGSIResponse(params, EmptyResponse)
  ELSE IF result.type = "stream"
    THEN QueryResponse(200, NoError, <<>>, <<"stream">>, {})
  ELSE IF result.type = "string"
    THEN WithHeader(QueryResponse(200, NoError, <<>>, <<"file", result.path>>, {}),
                    "Content-Disposition", <<"attachment", FileName(result.path)>>)
  ELSE NGSIResponse(params, result)

\* what the data callback of getAggregatedData replies, before the
\* correlator header
AggregatedDataResponse(params, err, result) ==
  IF err # NoError THEN ErrorResponse(err)
  ELSE IF AggregatedResultIsEmpty(result) THEN NGSIResponse(params, EmptyResponse)
  ELSE NGSIResponse(params, result)

\* the getCollection call of getRawData, with the options of storeRawData
GetRawDataCollectionCallCreating(q) ==
  GetCollectionCall("query", q, 0, query[q].headers,
                    CollectionOptions(FALSE, TRUE, TRUE, TRUE))

\* the getCollection call of getRawData
GetRawDataCollectionCall(q) ==
  GetCollectionCall("query", q, 0, query[q].headers,
                    CollectionOptions(FALSE, FALSE, FALSE, FALSE))

\* the getCollection call of getAggregatedData
GetAggregatedDataCollectionCall(q) ==
  GetCollectionCall("query", q, 0, query[q].headers,
                    CollectionOptions(TRUE, FALSE, FALSE, FALSE))

\* the argument of the calls of next the headers validation of the GET
\* route makes, in order: the validation detail of a boom.badRequest, or
\* NoError for next()
HeaderValidationCalls(headers) ==
  IF headers.service = "undefined"
    THEN <<<<"headers", <<"fiware-service">>>>, NoError>>
  ELSE IF headers.servicePath = "undefined"
    THEN <<<<"headers", <<"fiware-servicepath">>>>, NoError>>
  ELSE <<NoError>>

notifyVars == <<request, counterObj, totalTasks, tasks, replies, firstError>>

\* config.validate.headers of the GET route, for a query that arrives with
\* the given headers, path parameters and (joi validated) query parameters.
\* A next(error) makes hapi answer with the error; the validator then calls
\* next() as well.
GetValidateHeaders(q, headers, params, queryParams) ==
  LET calls == HeaderValidationCalls(headers)
  IN  /\ query[q].stage = "none"
      /\ attendedRequests' = Attended(attendedRequests)
      /\ kpi' = [kpi EXCEPT !.inbound = @ + 1]
      /\ query' =
           [query EXCEPT
              ![q].stage = IF calls[1] = NoError THEN "validated" ELSE "rejected",
              ![q].headers = headers,
              ![q].params = params,
              ![q].query = queryParams,
              ![q].nextCalls = calls,
              ![q].replies =
                 IF calls[1] = NoError
                   THEN <<>>
                   ELSE <<BadRequestResponse(calls[1][1], calls[1][2])>>]
      /\ UNCHANGED <<bucket, sthConfig, getCollectionCalls>>
      /\ UNCHANGED notifyVars

\* hapi was told to continue with the request: the last call of next carried
\* no error
Continued(q) ==
  /\ query[q].stage \in {"validated", "rejected"}
  /\ query[q].nextCalls[Len(query[q].nextCalls)] = NoError

\* the handler of the GET route
GetHandler(q) ==
  LET branch == BranchOf(query[q].query)
  IN  /\ Continued(q)
      /\ query' =
           [query EXCEPT
              ![q].stage = "handled",
              ![q].branches = Append(@, branch),
              ![q].pending = IF branch = "error" THEN "done" ELSE "getCollection",
              ![q].replies =
                 IF branch = "error"
                   THEN Append(@, BadRequestResponse("query", QUERY_KEYS))
                   ELSE @]
      /\ getCollectionCalls' =
           CASE branch = "raw" -> getCollectionCalls \cup {GetRawDataCollectionCall(q)}
             [] branch = "aggr" ->
                  getCollectionCalls \cup {GetAggregatedDataCollectionCall(q)}
             [] OTHER -> getCollectionCalls
      /\ UNCHANGED <<bucket, sthConfig, attendedRequests, kpi>>
      /\ UNCHANGED notifyVars

\* the family whose function the handler called
Family(q) == query[q].branches[Len(query[q].branches)]

\* the callback getRawData and getAggregatedData pass to getCollection
CollectionCallback(q, family, err) ==
  /\ query[q].pending = "getCollection"
  /\ Family(q) = family
  /\ IF err # NoError
       THEN query' =
              [query EXCEPT
                 ![q].pending = "done",
                 ![q].delivered = Append(@, <<err, Result("null", 0, <<>>)>>),
                 ![q].replies =
                    Append(@, CollectionErrorResponse(query[q].params, err))]
       ELSE query' =
              [query EXCEPT
                 ![q].pending = "read",
                 ![q].delivered = Append(@, <<err, Result("null", 0, <<>>)>>)]
  /\ UNCHANGED <<bucket, sthConfig, attendedRequests, kpi, getCollectionCalls>>
  /\ UNCHANGED notifyVars

GetRawDataCollectionCallback(q, err) == CollectionCallback(q, "raw", err)

GetAggregatedDataCollectionCallback(q, err) == CollectionCallback(q, "aggr", err)

\* the callback getRawData passes to sthDatabase.getRawData
GetRawDataCallback(q, err, result) ==
  /\ query[q].pending = "read"
  /\ Family(q) = "raw"
  /\ query' =
       [query EXCEPT
          ![q].pending = "done",
          ![q].delivered = Append(@, <<err, result>>),
          ![q].replies =
             Append(@, WithCorrelator(RawDataResponse(query[q].params, err, result),
                                      query[q].headers.correlator)),
          ![q].file =
             IF err = NoError /\ ~RawResultIsEmpty(result) /\ result.type = "string"
               THEN FileSent(result.path) ELSE @]
  /\ UNCHANGED <<bucket, sthConfig, attendedRequests, kpi, getCollectionCalls>>
  /\ UNCHANGED notifyVars

\* the callback getAggregatedData passes to sthDatabase.getAggregatedData
GetAggregatedDataCallback(q, err, result) ==
  /\ query[q].pending = "read"
  /\ Family(q) = "aggr"
  /\ query' =
       [query EXCEPT
          ![q].pending = "done",
          ![q].delivered = Append(@, <<err, result>>),
          ![q].replies =
             Append(@, WithCorrelator(
                         AggregatedDataResponse(query[q].params, err, result),
                         query[q].headers.correlator))]
  /\ UNCHANGED <<bucket, sthConfig, attendedRequests, kpi, getCollectionCalls>>
  /\ UNCHANGED notifyVars

\* the finish event of the response of a file: the listener registered with
\* once is removed, runs, and calls fs.unlink
ResponseFinish(q) ==
  /\ query[q].file.path # <<>>
  /\ ~query[q].file.finished
  /\ query' =
       [query EXCEPT
          ![q].file.finished = TRUE,
          ![q].file.listening = FALSE,
          ![q].file.unlinks = IF query[q].file.listening THEN @ + 1 ELSE @,
          ![q].file.unlinked = IF query[q].file.listening THEN "pending" ELSE @]
  /\ UNCHANGED <<bucket, sthConfig, attendedRequests, kpi, getCollectionCalls>>
  /\ UNCHANGED notifyVars

\* the callback of fs.unlink: it logs the outcome
UnlinkCallback(q, failed) ==
  /\ query[q].file.unlinked = "pending"
  /\ query' = [query EXCEPT ![q].file.unlinked = IF failed THEN "failed" ELSE "deleted"]
  /\ UNCHANGED <<bucket, sthConfig, attendedRequests, kpi, getCollectionCalls>>
  /\ UNCHANGED notifyVars

\* the (err, result) pairs a data read hands to its callback
ReadOutcomes(family, results) ==
  {<<ReadError(family), Result("null", 0, <<>>)>>} \cup {<<NoError, r>> : r \in results}

NextQuery ==
  \/ \E q \in DOMAIN query :
       /\ query[q].stage = "none"
       /\ \E h \in QueryHeaderSets, p \in PathParamSets, qp \in QueryParamSets :
            GetValidateHeaders(q, h, p, qp)
  \/ \E q \in DOMAIN query : GetHandler(q)
  \/ \E q \in DOMAIN query, e \in {NoError} \cup {CollectionError(k) : k \in CollectionErrors} :
       GetRawDataCollectionCallback(q, e)
  \/ \E q \in DOMAIN query, e \in {NoError} \cup {CollectionError(k) : k \in CollectionErrors} :
       GetAggregatedDataCollectionCallback(q, e)
  \/ \E q \in DOMAIN query, o \in ReadOutcomes("raw", RawResults) :
       GetRawDataCallback(q, o[1], o[2])
  \/ \E q \in DOMAIN query, o \in ReadOutcomes("aggr", AggregatedResults) :
       GetAggregatedDataCallback(q, o[1], o[2])
  \/ \E q \in DOMAIN query : ResponseFinish(q)
  \/ \E q \in DOMAIN query, failed \in BOOLEAN : UnlinkCallback(q, failed)

\* the queries of a behaviour arrive at a server that receives no
\* notification; the query path reads no option of the configuration
InitQuery ==
  /\ InitOver({}, Queries)
  /\ sthConfig = [SHOULD_STORE |-> "BOTH", IGNORE_BLANK_SPACES |-> TRUE]

SpecQuery == InitQuery /\ [][NextQuery]_vars

\* ------------------------------------------------------------------ KPIs
\* the handler of GET /version: the route has no validation
GetVersion ==
  /\ kpi.versions < MaxVersionRequests
  /\ kpi' = [kpi EXCEPT !.versions = @ + 1, !.inbound = @ + 1]
  /\ UNCHANGED <<bucket, sthConfig, attendedRequests, getCollectionCalls, query>>
  /\ UNCHANGED notifyVars

\* getKPIs()
getKPIs ==
  /\ kpi' = [kpi EXCEPT !.returned = attendedRequests]
  /\ UNCHANGED <<bucket, sthConfig, attendedRequests, getCollectionCalls, query>>
  /\ UNCHANGED notifyVars

\* resetKPIs()
resetKPIs ==
  /\ attendedRequests' = 0
  /\ kpi' = [kpi EXCEPT !.inbound = 0, !.epoch = 1 - @]
  /\ UNCHANGED <<bucket, sthConfig, getCollectionCalls, query>>
  /\ UNCHANGED notifyVars

\* the requests whose arrival is followed for the KPIs
KPIRequests == {1, 2}
KPIQueries == {1, 2}

InitKPI ==
  /\ InitOver(KPIRequests, KPIQueries)
  /\ sthConfig = [SHOULD_STORE |-> "BOTH", IGNORE_BLANK_SPACES |-> TRUE]

\* the arrival of requests of the three routes, and the calls of the KPI
\* functions
NextKPI ==
  \/ \E r \in DOMAIN request :
       /\ request[r].stage = "none"
       /\ NotifyValidateHeaders(r, Headers("undefined", "undefined"),
                                 Payload(FALSE, "undefined", <<>>))
  \/ \E q \in DOMAIN query :
       /\ query[q].stage = "none"
       /\ \E h \in {QueryHeaders("undefined", "/path", "undefined"),
                     QueryHeaders("service", "/path", "undefined")} :
            GetValidateHeaders(q, h, PathParams("e1", "t1", "a1"), NoQueryParams)
  \/ GetVersion
  \/ getKPIs
  \/ resetKPIs

SpecKPI == InitKPI /\ [][NextKPI]_vars

\* ---------------------------------------------------- aggregate updates
RECURSIVE SumOver(_, _)
SumOver(f, S) ==
  IF S = {} THEN 0
  ELSE LET v == CHOOSE x \in S : TRUE IN f[v] + SumOver(f, S \ {v})

\* the kind of the values of the namespace: the attribute is numeric or a
\* string
SameKind(v) ==
  \A w \in AggregatedValues :
    bucket.pending[w] + bucket.applied[w] > 0 => w.t = v.t

\* storeAggregatedData issues the update of an event with value v, while
\* updates of other events of the namespace may be in flight
AggregateUpdateIssued(v) ==
  /\ SumOver(bucket.pending, AggregatedValues)
       + SumOver(bucket.applied, AggregatedValues) < MaxEvents
  /\ SameKind(v)
  /\ bucket' = [bucket EXCEPT !.pending[v] = @ + 1]
  /\ UNCHANGED <<sthConfig, attendedRequests, getCollectionCalls, query, kpi>>
  /\ UNCHANGED notifyVars

\* the store applies one update in flight, as one atomic operation
AggregateUpdateApplied(v) ==
  /\ bucket.pending[v] > 0
  /\ bucket' = [bucket EXCEPT !.pending[v] = @ - 1,
                              !.applied[v] = @ + 1,
                              !.slot = Delta(@, v)]
  /\ UNCHANGED <<sthConfig, attendedRequests, getCollectionCalls, query, kpi>>
  /\ UNCHANGED notifyVars

InitAggregate ==
  /\ InitOver({}, {})
  /\ sthConfig = [SHOULD_STORE |-> "BOTH", IGNORE_BLANK_SPACES |-> TRUE]

NextAggregate ==
  \/ \E v \in AggregatedValues : AggregateUpdateIssued(v)
  \/ \E v \in AggregatedValues : AggregateUpdateApplied(v)

SpecAggregate == InitAggregate /\ [][NextAggregate]_vars

\* ------------------------------------------------------------ properties
Handled(r) == request[r].stage = "handled"

\* the handler ran processAttributes and it dispatched store calls
Dispatching(r) ==
  Handled(r) /\ WellFormed(request[r].payload) /\ tasks[r] # [t \in TaskIds |-> NoTask]

DispatchedTasks(r) == {t \in TaskIds : tasks[r][t].st # "none"}

\* no callback of the notification is pending
Settled(r) == \A t \in TaskIds : tasks[r][t].st \in {"none", "skipped", "done"}

\* the families the store mode writes
WrittenFamilies ==
  CASE sthConfig.SHOULD_STORE = "ONLY_RAW" -> {"raw"}
    [] sthConfig.SHOULD_STORE = "ONLY_AGGREGATED" -> {"aggr"}
    [] OTHER -> {"raw", "aggr"}

\* the subtasks of a notification: the store calls of the written families
Subtasks(r) == {t \in DispatchedTasks(r) : t[2] \in WrittenFamilies}

\* C1: reply is invoked at most once per notification, whatever the store
\* mode and the order and outcome of the callbacks; a completion after the
\* reply emits no second reply.
C1_ReplyAtMostOnce == \A r \in DOMAIN request : Len(replies[r]) <= 1

\* a completion was counted after the reply
C1_Witness ==
  \E r \in DOMAIN request :
    /\ Dispatching(r)
    /\ Len(replies[r]) = 1
    /\ counterObj[r].counter > totalTasks[r]

\* C2 (as claimed): a reply emitted by a store callback when some subtask
\* has failed carries the error of the first subtask that failed.
C2_ReplyCarriesFirstError ==
  [][\A r \in DOMAIN request :
       (Handled(r) /\ replies'[r] # replies[r] /\ firstError'[r] # NoError)
         => replies'[r] = <<Reply(firstError'[r])>>]_vars

\* C3 (as claimed): once the reply is emitted every subtask (a store call
\* of a family the store mode writes) has finished.
C3_ReplyAfterAllSettled ==
  \A r \in DOMAIN request :
    (Dispatching(r) /\ replies[r] # <<>>)
      => \A t \in Subtasks(r) : tasks[r][t].st = "done"

\* C4: a notification that dispatched store calls is eventually replied to,
\* exactly once, when the store invokes every callback.
C4_EventuallyReplied ==
  \A r \in Requests : Dispatching(r) ~> (Len(replies[r]) = 1)

\* a reply that the last of several callbacks emitted
C4_Witness ==
  \E r \in DOMAIN request :
    /\ Dispatching(r)
    /\ Settled(r)
    /\ totalTasks[r] >= 2
    /\ Len(replies[r]) = 1

\* every store call of the notification returned without error
AllSucceeded(r) ==
  /\ Settled(r)
  /\ \A t \in DispatchedTasks(r) : tasks[r][t].err = NoError

\* C5: when every getCollection and every write of a notification has
\* returned without error, its one reply carries no error.
C5_SuccessRepliesNoError ==
  \A r \in DOMAIN request :
    (Dispatching(r) /\ AllSucceeded(r)) => replies[r] = <<Reply(NoError)>>

C5_Witness ==
  \E r \in DOMAIN request :
    /\ Dispatching(r)
    /\ AllSucceeded(r)
    /\ totalTasks[r] >= 2
    /\ replies[r] = <<Reply(NoError)>>

\* a subtask that ended without error
Succeeded(r, t) == tasks[r][t].st = "done" /\ tasks[r][t].err = NoError

C7_MalformedAnswered400 ==
  \A r \in DOMAIN request :
    (Handled(r) /\ ~WellFormed(request[r].payload))
      => /\ Len(replies[r]) = 1
         /\ replies[r][1].statusCode = 400

\* the attributes of a payload, each as <<i, j>>: attribute j of the i-th
\* entry of contextResponses, for the entries that have an attributes array
AttributesOf(payload) ==
  {p \in (1..Len(payload.items)) \X (1..MaxAttrs) :
     /\ HasAttributesArray(payload.items[p[1]])
     /\ p[2] <= Len(payload.items[p[1]].items)}

ValueAt(payload, p) == payload.items[p[1]].items[p[2]].value

\* the filter as specified: a string or a number, and not a string that
\* trims to empty when IGNORE_BLANK_SPACES is set
IsAggregatable(v) ==
  /\ v.t \in {"string", "number"}
  /\ ~(sthConfig.IGNORE_BLANK_SPACES /\ v.t = "string" /\ Trim(v.s) = <<>>)

\* the attributes store calls were dispatched for
DispatchedAttributes(r) == {tasks[r][t].attr : t \in DispatchedTasks(r)}

\* C8 (as claimed): the attributes the ingest path retains are those whose
\* value is a string or a number, unless IGNORE_BLANK_SPACES is set and the
\* value is a string that trims to empty; the number 0 and, without
\* IGNORE_BLANK_SPACES, the empty string are retained.
C8_FilterRetainsStringsAndNumbers ==
  \A r \in DOMAIN request :
    (Handled(r) /\ WellFormed(request[r].payload))
      => DispatchedAttributes(r) =
           {p \in AttributesOf(request[r].payload) :
              IsAggregatable(ValueAt(request[r].payload, p))}

\* C9: when the filter retains no attribute of a well-formed notification
\* (an empty contextResponses included), the one reply is the 400 with
\* validation {source: 'payload', keys: ['attributes']} and no store call
\* is issued.
C9_NothingRetainedAnswered400 ==
  \A r \in DOMAIN request :
    (/\ Handled(r)
     /\ WellFormed(request[r].payload)
     /\ \A p \in AttributesOf(request[r].payload) :
          SkippedByTotal(Attribute(ValueAt(request[r].payload, p))))
      => /\ replies[r] = <<BadRequest("payload", <<"attributes">>)>>
         /\ DispatchedTasks(r) = {}
         /\ counterObj[r].counter = 0

\* a payload with attributes, none of them retained
C9_Witness ==
  \E r \in DOMAIN request :
    /\ Handled(r)
    /\ WellFormed(request[r].payload)
    /\ AttributesOf(request[r].payload) # {}
    /\ replies[r] = <<BadRequest("payload", <<"attributes">>)>>

\* the getCollection of a store call returned a collection
CollectionObtained(r, t) ==
  \/ tasks[r][t].st \in {"store", "skipped"}
  \/ tasks[r][t].st = "done" /\ tasks[r][t].err # StoreError(t[1], t[2], "getCollection")

\* C10: ONLY_RAW issues no aggregate update, ONLY_AGGREGATED issues no raw
\* write, and BOTH issues exactly one raw write and one aggregate update for
\* each retained attribute whose getCollection succeeded.
C10_StoreModeDecidesWrites ==
  \A r \in DOMAIN request :
    /\ sthConfig.SHOULD_STORE = "ONLY_RAW"
         => \A k \in 1..MaxAttrs : tasks[r][<<k, "aggr">>].writes = 0
    /\ sthConfig.SHOULD_STORE = "ONLY_AGGREGATED"
         => \A k \in 1..MaxAttrs : tasks[r][<<k, "raw">>].writes = 0
    /\ (sthConfig.SHOULD_STORE = "BOTH" /\ Dispatching(r))
         => /\ DispatchedAttributes(r) =
                 {p \in AttributesOf(request[r].payload) :
                    ~SkippedByTotal(Attribute(ValueAt(request[r].payload, p)))}
            /\ \A p \in DispatchedAttributes(r), f \in Families :
                 Cardinality({t \in DispatchedTasks(r) :
                                tasks[r][t].attr = p /\ t[2] = f}) = 1
            /\ \A t \in DispatchedTasks(r) :
                 tasks[r][t].writes = IF CollectionObtained(r, t) THEN 1 ELSE 0

\* BOTH: two attributes, each with its raw write and its aggregate update
C10_Witness ==
  \E r \in DOMAIN request :
    /\ sthConfig.SHOULD_STORE = "BOTH"
    /\ Dispatching(r)
    /\ Settled(r)
    /\ Cardinality(DispatchedAttributes(r)) >= 2
    /\ \A t \in DispatchedTasks(r) : tasks[r][t].writes = 1

\* ------------------------------------------------- properties of queries
\* the query passed the headers validation: next was called once, without error
PassedValidation(q) == query[q].nextCalls = <<NoError>>

\* the handler of the query ran
QueryHandled(q) == query[q].stage = "handled"

\* a query parameter is present in the query string
Present(v) == v.t # "undefined"

\* the getCollection calls made for a query
CollectionCallsOf(q) ==
  {c \in getCollectionCalls : c.endpoint = "query" /\ c.id = q}

\* C11: the handler chooses its branch in order, the first match winning: a
\* query with lastN present, or with both hLimit and hOffset present, or with
\* filetype csv takes the raw path, also when aggrMethod and aggrPeriod are
\* present; a value of 0 counts as present; hLimit without hOffset (or the
\* reverse) does not by itself select the raw path.
C11_RawRuleWinsFirst ==
  \A q \in DOMAIN query :
    QueryHandled(q) =>
      LET p == query[q].query
      IN  /\ ( \/ Present(p.lastN)
               \/ Present(p.hLimit) /\ Present(p.hOffset)
               \/ p.filetype = StringValue(<<"c", "s", "v">>) )
               => query[q].branches = <<"raw">>
          /\ ( /\ ~Present(p.lastN)
               /\ ~Present(p.filetype)
               /\ ~(Present(p.hLimit) /\ Present(p.hOffset)) )
               => query[q].branches # <<"raw">>

\* a query with lastN = 0 and both aggregation parameters took the raw path
C11_Witness ==
  \E q \in DOMAIN query :
    /\ QueryHandled(q)
    /\ query[q].query.lastN = NumberValue(0)
    /\ Present(query[q].query.aggrMethod)
    /\ Present(query[q].query.aggrPeriod)
    /\ ~Present(query[q].query.hLimit)
    /\ ~Present(query[q].query.filetype)
    /\ query[q].branches = <<"raw">>

\* C12: for a query that passed the headers and query validation exactly one
\* of the raw, aggregated and error branches runs; the error branch runs
\* exactly when neither the raw nor the aggregated rule matches, and it
\* replies 400 with validation source "query" and the six parameter names,
\* without any access to the store.
C12_ExactlyOneBranch ==
  \A q \in DOMAIN query :
    PassedValidation(q) =>
      LET p == query[q].query
          rawRule ==
            \/ Present(p.lastN)
            \/ Present(p.hLimit) /\ Present(p.hOffset)
            \/ Present(p.filetype) /\ ToLowerCase(p.filetype.s) = <<"c", "s", "v">>
          aggrRule == Present(p.aggrMethod) /\ Present(p.aggrPeriod)
      IN  /\ ~QueryHandled(q) => query[q].branches = <<>>
          /\ QueryHandled(q) =>
               /\ Len(query[q].branches) = 1
               /\ query[q].branches[1] \in {"raw", "aggr", "error"}
               /\ query[q].branches[1] = "error" <=> ~rawRule /\ ~aggrRule
               /\ query[q].branches[1] = "error" =>
                    /\ Len(query[q].replies) = 1
                    /\ query[q].replies[1].statusCode = 400
                    /\ query[q].replies[1].validation =
                         <<"query", <<"lastN", "hLimit", "hOffset", "filetype",
                                      "aggrMethod", "aggrPeriod">>>>
                    /\ CollectionCallsOf(q) = {}
                    /\ query[q].pending = "done"

\* a validated query with hLimit but no hOffset and aggrMethod but no
\* aggrPeriod was answered by the error branch
C12_Witness ==
  \E q \in DOMAIN query :
    /\ PassedValidation(q)
    /\ QueryHandled(q)
    /\ Present(query[q].query.hLimit)
    /\ Present(query[q].query.aggrMethod)
    /\ query[q].branches = <<"error">>
    /\ query[q].replies[1].statusCode = 400

\* the store answered the query: getCollection failed, or the data read
\* delivered its outcome
Answered(q) == PassedValidation(q) /\ QueryHandled(q) /\ query[q].pending = "done"
                 /\ query[q].branches[1] # "error"

\* what the last store callback of the query was handed
LastDelivered(q) == query[q].delivered[Len(query[q].delivered)]

\* getCollection delivered an error to the query
CollectionFailed(q) == Len(query[q].delivered) = 1 /\ LastDelivered(q)[1] # NoError

\* the data read of the query delivered no error and this result
ReadDelivered(q, result) ==
  Len(query[q].delivered) = 2 /\ LastDelivered(q) = <<NoError, result>>

\* the response is the fixed envelope of the query, with no values
IsEmptyEnvelope(q, response) ==
  /\ response.statusCode = 200
  /\ response.error = NoError
  /\ response.body =
       <<"ngsi", query[q].params.entityId, query[q].params.entityType,
         query[q].params.attrName, Result("array", 0, <<>>)>>

\* C13: a raw or aggregated query whose collection does not exist, or whose
\* data read returns null or an empty list, is answered with status 200 and
\* the fixed envelope carrying the requested entityId, entityType and attrName
\* and an empty values list; it is never answered with an error.
C13_NoDataAnswersEmptyEnvelope ==
  \A q \in DOMAIN query :
    ( /\ Answered(q)
      /\ \/ CollectionFailed(q) /\ LastDelivered(q)[1] = <<"getCollection", "NotFound">>
         \/ ReadDelivered(q, Result("null", 0, <<>>))
         \/ ReadDelivered(q, Result("array", 0, <<>>)) )
      => /\ Len(query[q].replies) = 1
         /\ IsEmptyEnvelope(q, query[q].replies[1])

\* an aggregated query for entity e2 found no collection and got the envelope
C13_Witness ==
  \E q \in DOMAIN query :
    /\ Answered(q)
    /\ query[q].branches = <<"aggr">>
    /\ CollectionFailed(q)
    /\ LastDelivered(q)[1] = <<"getCollection", "NotFound">>
    /\ query[q].params.entityId = "e2"
    /\ IsEmptyEnvelope(q, query[q].replies[1])

\* the data read of the query delivered an error
ReadFailed(q) == Len(query[q].delivered) = 2 /\ LastDelivered(q)[1] # NoError

\* C14: when the data read (sthDatabase.getRawData or getAggregatedData)
\* fails with a store error, the query is answered with that error (500), on
\* the raw and on the aggregated path.
C14_ReadErrorIsSurfaced ==
  \A q \in DOMAIN query :
    Answered(q) /\ ReadFailed(q) =>
      /\ Len(query[q].replies) = 1
      /\ query[q].replies[1].statusCode = 500
      /\ query[q].replies[1].error = LastDelivered(q)[1]

\* the data read of a raw query failed and the query was answered 500
C14_Witness ==
  \E q \in DOMAIN query :
    /\ Answered(q)
    /\ query[q].branches = <<"raw">>
    /\ ReadFailed(q)
    /\ query[q].replies[1].statusCode = 500

\* C15: on the query path a getCollection error is rewritten to the empty 200
\* envelope only when it is NotFound; any other getCollection error is
\* surfaced as 500.
C15_OnlyNotFoundIsRewritten ==
  \A q \in DOMAIN query :
    Answered(q) /\ CollectionFailed(q) =>
      IF LastDelivered(q)[1] = <<"getCollection", "NotFound">>
        THEN IsEmptyEnvelope(q, query[q].replies[1])
        ELSE /\ query[q].replies[1].statusCode = 500
             /\ query[q].replies[1].error = LastDelivered(q)[1]

\* C16: every query that carries a Unica-Correlator header gets the same
\* value back in the Unica-Correlator header of its response, on every
\* outcome (data, empty result, collection absent, store error) and on both
\* paths.
C16_CorrelatorEchoed ==
  \A q \in DOMAIN query :
    Answered(q) /\ query[q].headers.correlator # "undefined" =>
      \A i \in DOMAIN query[q].replies :
        <<"Unica-Correlator", query[q].headers.correlator>>
          \in query[q].replies[i].headers

NotifyCollectionCalls(r) ==
  {c \in getCollectionCalls : c.endpoint = "notify" /\ c.id = r}

\* C18: on POST /notify a missing fiware-service header is replaced by
\* DEFAULT_SERVICE and a missing fiware-servicepath by DEFAULT_SERVICE_PATH
\* before any store call is dispatched, so every getCollection call of the
\* notification uses the defaulted values; headers that are present are
\* passed unchanged; the notification is never rejected for missing headers.
C18_NotifyHeadersDefaulted ==
  \A r \in DOMAIN request :
    request[r].stage # "none" =>
      LET service == IF request[r].received.service = "undefined"
                       THEN "default_service" ELSE request[r].received.service
          servicePath == IF request[r].received.servicePath = "undefined"
                           THEN "/default_path" ELSE request[r].received.servicePath
      IN  /\ request[r].headers.service = service
          /\ request[r].headers.servicePath = servicePath
          /\ \A c \in NotifyCollectionCalls(r) :
               c.service = service /\ c.servicePath = servicePath
          /\ \A i \in DOMAIN replies[r] :
               replies[r][i].validation = <<>> \/ replies[r][i].validation[1] # "headers"
          /\ Dispatching(r) => NotifyCollectionCalls(r) # {}

\* a notification without fiware-service and with fiware-servicepath had its
\* store calls dispatched with the default service and the path it carried
C18_Witness ==
  \E r \in DOMAIN request :
    /\ Dispatching(r)
    /\ request[r].received = Headers("undefined", "/path")
    /\ \E c \in NotifyCollectionCalls(r) :
         c.service = DEFAULT_SERVICE /\ c.servicePath = "/path"

\* the notifications and queries that enter their headers validation in a step
Arriving ==
  Cardinality({r \in DOMAIN request :
                 request[r].stage = "none" /\ request'[r].stage # "none"})
    + Cardinality({q \in DOMAIN query :
                     query[q].stage = "none" /\ query'[q].stage # "none"})

\* C19: attendedRequests equals the number of inbound HTTP requests the
\* server accepted since the last resetKPIs.
C19_CountsEveryInboundRequest == attendedRequests = kpi.inbound

\* what the code keeps of it: attendedRequests counts the POST /notify and
\* GET query requests that entered their headers validation since the last resetKPIs: each of them
\* increases it by exactly one (also when the validation then rejects it),
\* resetKPIs sets it to 0, getKPIs returns it and leaves it unchanged, and
\* no other step (GET /version included) changes it.
CountsValidatedRequests ==
  [][ /\ kpi'.epoch # kpi.epoch => attendedRequests' = 0
      /\ kpi'.epoch = kpi.epoch => attendedRequests' = attendedRequests + Arriving
      /\ kpi'.returned # kpi.returned =>
           kpi'.returned = attendedRequests /\ attendedRequests' = attendedRequests
    ]_vars

\* after a reset, one rejected query was counted and getKPIs returned 1,
\* while a GET /version request was answered and not counted
CountedAfterReset ==
  /\ kpi.epoch = 1
  /\ attendedRequests = 1
  /\ kpi.returned = 1
  /\ kpi.inbound = 2
  /\ \E q \in DOMAIN query : query[q].stage = "rejected"
  /\ \E r \in DOMAIN request : request[r].stage = "validated"

\* the raw data read of the query delivered the path of a file
FileDelivered(q) ==
  /\ Answered(q)
  /\ Len(query[q].delivered) = 2
  /\ LastDelivered(q)[1] = NoError
  /\ LastDelivered(q)[2].type = "string"
  /\ LastDelivered(q)[2].length # 0

\* C20: when the raw read delivers a file path the file is sent as the
\* response and is deleted only after the finish event of the response: no
\* delete is attempted before finish, exactly one delete attempt follows it,
\* and a failed delete does not change the response.
C20_FileDeletedAfterFinish ==
  \A q \in DOMAIN query :
    FileDelivered(q) =>
      /\ Len(query[q].replies) = 1
      /\ query[q].replies[1].statusCode = 200
      /\ query[q].replies[1].body = <<"file", LastDelivered(q)[2].path>>
      /\ query[q].file.path = LastDelivered(q)[2].path
      /\ query[q].file.unlinks = IF query[q].file.finished THEN 1 ELSE 0
      /\ ~query[q].file.finished => query[q].file.unlinked = "none"

\* the response of a file finished, and the one delete attempt failed
C20_Witness ==
  \E q \in DOMAIN query :
    /\ FileDelivered(q)
    /\ query[q].file.finished
    /\ query[q].file.unlinks = 1
    /\ query[q].file.unlinked = "failed"
    /\ query[q].replies[1].statusCode = 200

\* ----------------------------------------- properties of the store contents
\* the store applies a write exactly when it reports no error for it: the
\* raw events stored for the k-th dispatched attribute of a notification
RawEventsStored(r, k) ==
  IF tasks[r][<<k, "raw">>].writes = 1 /\ Succeeded(r, <<k, "raw">>) THEN 1 ELSE 0

\* the samples the aggregate update of the k-th dispatched attribute added to
\* the slot of its recvTime
SamplesAdded(r, k) ==
  IF tasks[r][<<k, "aggr">>].writes = 1 /\ Succeeded(r, <<k, "aggr">>) THEN 1 ELSE 0

\* C21: in BOTH mode, once the reply of a notification is emitted and its
\* store calls have completed, whatever their outcomes, the samples of each
\* aggregate slot equal the number of raw events stored for the same
\* namespace in the sub-unit of the slot.
C21_SamplesEqualRawEvents ==
  \A r \in DOMAIN request :
    ( /\ sthConfig.SHOULD_STORE = "BOTH"
      /\ Dispatching(r)
      /\ Settled(r)
      /\ replies[r] # <<>> )
      => \A k \in 1..MaxAttrs : SamplesAdded(r, k) = RawEventsStored(r, k)

\* the updates applied to the slot, by value
AppliedNumbers == {v \in AggregatedNumbers : bucket.applied[v] > 0}

\* C22: aggregate deltas commute and none is lost: in whatever order the
\* updates of the events of a namespace are applied, concurrent ones
\* included, the slot holds the state of the set of events applied: samples
\* their number, and for numbers sum, sum2, min and max their sum, sum of
\* squares, least and greatest value, for strings occur the count of each
\* value.
C22_DeltasCommute ==
  /\ bucket.slot.samples = SumOver(bucket.applied, AggregatedValues)
  /\ bucket.slot.sum =
       SumOver([v \in AggregatedNumbers |-> v.n * bucket.applied[v]], AggregatedNumbers)
  /\ bucket.slot.sum2 =
       SumOver([v \in AggregatedNumbers |-> v.n * v.n * bucket.applied[v]],
               AggregatedNumbers)
  /\ AppliedNumbers # {} =>
       /\ \E v \in AppliedNumbers :
            bucket.slot.min = v.n /\ \A w \in AppliedNumbers : v.n <= w.n
       /\ \E v \in AppliedNumbers :
            bucket.slot.max = v.n /\ \A w \in AppliedNumbers : v.n >= w.n
  /\ \A v \in AggregatedStrings : bucket.slot.occur[v] = bucket.applied[v]

\* the updates of three events of distinct values were applied, in any of
\* their orders, and none is in flight
C22_Witness ==
  /\ bucket.applied[NumberValue(-1)] = 1
  /\ bucket.applied[NumberValue(2)] = 1
  /\ bucket.applied[NumberValue(5)] = 1
  /\ SumOver(bucket.pending, AggregatedValues) = 0
  /\ bucket.slot.min = -1
  /\ bucket.slot.max = 5

\* the subtasks of a notification that finished
FinishedSubtasks(r) == {t \in Subtasks(r) : tasks[r][t].st = "done"}

\* C23: the completion counter of a notification is incremented exactly once
\* per finished subtask and never exceeds the total of subtasks (N in
\* ONLY_RAW and ONLY_AGGREGATED, 2N in BOTH, for N retained attributes), in
\* every store mode and for every outcome of the callbacks.
C23_CounterWithinTotal ==
  \A r \in DOMAIN request :
    Dispatching(r) =>
      /\ totalTasks[r] =
           (IF sthConfig.SHOULD_STORE = "BOTH" THEN 2 ELSE 1)
             * getTotalAttributes(request[r].payload.items)
      /\ counterObj[r].counter = Cardinality(FinishedSubtasks(r))
      /\ counterObj[r].counter <= totalTasks[r]

\* the callback a store call waits for can be delivered
CallbackEnabled(r, t) ==
  CASE tasks[r][t].st = "getCollection" /\ t[2] = "raw" ->
         ENABLED RawCollectionCallback(r, t[1], FALSE)
    [] tasks[r][t].st = "getCollection" /\ t[2] = "aggr" ->
         ENABLED AggregatedCollectionCallback(r, t[1], FALSE)
    [] tasks[r][t].st = "store" /\ t[2] = "raw" ->
         ENABLED RawStoredCallback(r, t[1], FALSE)
    [] tasks[r][t].st = "store" /\ t[2] = "aggr" ->
         ENABLED AggregatedStoredCallback(r, t[1], FALSE)
    [] OTHER -> TRUE

\* C24: within one attribute of one notification the raw write and the
\* aggregate update are independent: both are dispatched together, neither
\* waiting for the other; whatever the state of the one (pending, failed in
\* its getCollection or its store call, done), the callback the other waits
\* for can be delivered; and a step of the one leaves the other as it was.
C24_RawAndAggregateIndependent ==
  /\ [](\A r \in Requests, k \in 1..MaxAttrs :
          /\ tasks[r][<<k, "raw">>].st # "none" <=> tasks[r][<<k, "aggr">>].st # "none"
          /\ CallbackEnabled(r, <<k, "raw">>)
          /\ CallbackEnabled(r, <<k, "aggr">>))
  /\ [][\A r \in Requests, k \in 1..MaxAttrs :
          tasks[r][<<k, "raw">>].st # "none" =>
            \/ tasks'[r][<<k, "raw">>] = tasks[r][<<k, "raw">>]
            \/ tasks'[r][<<k, "aggr">>] = tasks[r][<<k, "aggr">>]]_vars

\* BOTH: the raw write of the first attribute failed and its aggregate update
\* completed; the aggregate update of the second attribute failed in its
\* getCollection while its raw write is still pending
C24_Witness ==
  \E r \in DOMAIN request :
    /\ sthConfig.SHOULD_STORE = "BOTH"
    /\ tasks[r][<<1, "raw">>].st = "done"
    /\ tasks[r][<<1, "raw">>].err = StoreError(1, "raw", "store")
    /\ Succeeded(r, <<1, "aggr">>)
    /\ tasks[r][<<1, "aggr">>].writes = 1
    /\ tasks[r][<<2, "aggr">>].st = "done"
    /\ tasks[r][<<2, "aggr">>].err = StoreError(2, "aggr", "getCollection")
    /\ tasks[r][<<2, "raw">>].st = "store"

\* what a getCollection call may change in the store: with shouldCreate it
\* creates an absent collection, with shouldStoreHash it inserts the
\* hash-origin record, with shouldTruncate it applies the truncation policy
MutatesStore(call) ==
  call.options.shouldCreate \/ call.options.shouldStoreHash
    \/ call.options.shouldTruncate

\* C25: the query path never mutates the store: every getCollection of a raw
\* or aggregated query has shouldCreate, shouldStoreHash and shouldTruncate
\* false, so that a query of an absent namespace leaves it absent, and no
\* query issues a raw write or an aggregate update.
C25_QueryNeverMutatesStore ==
  \A q \in DOMAIN query :
    /\ \A c \in CollectionCallsOf(q) :
         /\ ~c.options.shouldCreate
         /\ ~c.options.shouldStoreHash
         /\ ~c.options.shouldTruncate
         /\ ~MutatesStore(c)
         /\ c.options.isAggregated <=> query[q].branches = <<"aggr">>
    /\ query[q].branches \in {<<"raw">>, <<"aggr">>} <=> CollectionCallsOf(q) # {}
    /\ bucket = EmptyBucket
    /\ \A c \in getCollectionCalls : c.endpoint = "query"

\* a raw query of an absent namespace was answered after its one
\* getCollection call
C25_Witness ==
  \E q \in DOMAIN query :
    /\ Answered(q)
    /\ query[q].branches = <<"raw">>
    /\ CollectionFailed(q)
    /\ LastDelivered(q)[1] = <<"getCollection", "NotFound">>
    /\ Cardinality(CollectionCallsOf(q)) = 1

\* C26: for every result of the raw data read delivered without error exactly
\* one response variant is replied, once: a null result, an empty list or an
\* empty string gives the empty envelope; a stream is replied as a stream; a
\* non-empty string is replied as a file attachment named after the last
\* segment of the path; a non-empty list is replied in the envelope, as its
\* values.
C26_OneVariantPerRawResult ==
  \A q \in DOMAIN query :
    ( /\ Answered(q)
      /\ query[q].branches = <<"raw">>
      /\ Len(query[q].delivered) = 2
      /\ LastDelivered(q)[1] = NoError )
      => LET result == LastDelivered(q)[2]
             response == query[q].replies[1]
             empty == \/ result.type = "null"
                      \/ result.type = "array" /\ result.length = 0
                      \/ result.type = "string" /\ result.length = 0
         IN  /\ Len(query[q].replies) = 1
             /\ response.statusCode = 200
             /\ empty <=> IsEmptyEnvelope(q, response)
             /\ result.type = "stream" <=> response.body = <<"stream">>
             /\ (result.type = "string" /\ result.length # 0)
                  <=> response.body = <<"file", result.path>>
             /\ (result.type = "string" /\ result.length # 0)
                  => /\ <<"Content-Disposition",
                          <<"attachment", result.path[Len(result.path)]>>>>
                          \in response.headers
                     /\ query[q].file.path = result.path
             /\ (result.type = "array" /\ result.length # 0)
                  => response.body =
                        <<"ngsi", query[q].params.entityId, query[q].params.entityType,
                          query[q].params.attrName, result>>
             /\ ~(result.type = "string" /\ result.length # 0)
                  => query[q].file = NoFile

\* the file tmp/e1.csv was replied as the attachment e1.csv
C26_Witness ==
  \E q \in DOMAIN query :
    /\ Answered(q)
    /\ ReadDelivered(q, Result("string", 2, <<"tmp", "e1.csv">>))
    /\ query[q].replies[1].body = <<"file", <<"tmp", "e1.csv">>>>
    /\ <<"Content-Disposition", <<"attachment", "e1.csv">>>>
         \in query[q].replies[1].headers

\* C27: in ONLY_RAW mode a notification issues no operation on the
\* aggregated collection family (no getCollection that creates, stores the
\* hash-origin record or applies the truncation policy), and in
\* ONLY_AGGREGATED mode none on the raw family.
C27_DisabledFamilyUntouched ==
  \A r \in DOMAIN request :
    /\ sthConfig.SHOULD_STORE = "ONLY_RAW"
         => \A c \in NotifyCollectionCalls(r) : ~c.options.isAggregated
    /\ sthConfig.SHOULD_STORE = "ONLY_AGGREGATED"
         => \A c \in NotifyCollectionCalls(r) : c.options.isAggregated

\* C28: the headers validation of the GET query route invokes its
\* continuation exactly once per request: with the error when fiware-service
\* or fiware-servicepath is missing, without an error otherwise.
C28_NextInvokedOnce ==
  \A q \in DOMAIN query :
    query[q].stage # "none" =>
      /\ Len(query[q].nextCalls) = 1
      /\ query[q].nextCalls[1] # NoError
           <=> \/ query[q].headers.service = "undefined"
               \/ query[q].headers.servicePath = "undefined"

\* ------------------------------------------------ concurrent notifications
\* two notifications in flight at once
ConcurrentRequests == {1, 2}

\* each carries one entry with one attribute the filter retains
ConcurrentPayloads ==
  {Payload(TRUE, "array", <<Entry(TRUE, "array", <<Attribute(NumberValue(5))>>)>>)}

InitConcurrent ==
  /\ InitOver(ConcurrentRequests, {})
  /\ sthConfig = [SHOULD_STORE |-> "BOTH", IGNORE_BLANK_SPACES |-> TRUE]

\* the requests arrive in any order and their store callbacks interleave
NextConcurrent ==
  \/ \E r \in DOMAIN request :
       /\ request[r].stage = "none"
       /\ \E p \in ConcurrentPayloads :
            NotifyValidateHeaders(r, Headers("service", "/path"), p)
  \/ \E r \in DOMAIN request : NotifyHandler(r)
  \/ \E r \in DOMAIN request, k \in 1..MaxAttrs, failed \in BOOLEAN :
       RawCollectionCallback(r, k, failed)
  \/ \E r \in DOMAIN request, k \in 1..MaxAttrs, failed \in BOOLEAN :
       RawStoredCallback(r, k, failed)
  \/ \E r \in DOMAIN request, k \in 1..MaxAttrs, failed \in BOOLEAN :
       AggregatedCollectionCallback(r, k, failed)
  \/ \E r \in DOMAIN request, k \in 1..MaxAttrs, failed \in BOOLEAN :
       AggregatedStoredCallback(r, k, failed)

SpecConcurrent == InitConcurrent /\ [][NextConcurrent]_vars

\* the store calls of the notification whose last callback has run
Completed(r) == {t \in TaskIds : tasks[r][t].st = "done"}

\* C29: concurrent notifications are isolated.  Each has its own completion
\* counter and total: under any interleaving of the store callbacks of two
\* notifications in flight, the counter of a notification counts the
\* completions of its own store calls only, its counter, total and replies
\* change only in its own steps, and its reply is sent on its own reply
\* function when its own counter reaches its own total.
C29_NotificationsIsolated ==
  /\ [](\A r \in ConcurrentRequests :
          /\ counterObj[r].counter = Cardinality(Completed(r))
          /\ Len(replies[r]) =
               IF counterObj[r].counter >= totalTasks[r] /\ totalTasks[r] > 0
                 THEN 1 ELSE 0)
  /\ [][\A r \in ConcurrentRequests :
          ( \/ counterObj'[r] # counterObj[r]
            \/ totalTasks'[r] # totalTasks[r]
            \/ replies'[r] # replies[r] )
            => /\ tasks'[r] # tasks[r] \/ request'[r] # request[r]
               /\ \A o \in ConcurrentRequests \ {r} :
                    /\ tasks'[o] = tasks[o]
                    /\ request'[o] = request[o]
                    /\ counterObj'[o] = counterObj[o]
                    /\ totalTasks'[o] = totalTasks[o]
                    /\ replies'[o] = replies[o]]_vars

\* one notification was replied on its two completions while the other, with
\* one completion counted, still waits
C29_Witness ==
  /\ Len(replies[1]) = 0
  /\ counterObj[1].counter = 1
  /\ Len(replies[2]) = 1
  /\ counterObj[2].counter = 2
  /\ totalTasks[1] = 2
  /\ totalTasks[2] = 2

\* the attributes of the notification for which the store call of the family
\* was dispatched
DispatchedFor(r, family) ==
  {k \in 1..MaxAttrs : tasks[r][<<k, family>>].st # "none"}

\* C30: the two passes over a notification agree: the number of attributes
\* for which processAttributes dispatches storeRawData and
\* storeAggregatedData is the count getTotalAttributes returns for the same
\* payload and configuration, for every payload, the entries without a
\* contextElement or with an attributes field that is no array included.
C30_PassesAgree ==
  \A r \in DOMAIN request :
    (Handled(r) /\ WellFormed(request[r].payload))
      => /\ Cardinality(DispatchedFor(r, "raw"))
              = getTotalAttributes(request[r].payload.items)
         /\ Cardinality(DispatchedFor(r, "aggr"))
              = getTotalAttributes(request[r].payload.items)
         /\ totalTasks[r] = TotalTasksOf(getTotalAttributes(request[r].payload.items))

\* a payload with an entry both passes skip and an entry of which one
\* attribute is dropped and one dispatched
C30_Witness ==
  \E r \in DOMAIN request :
    /\ Handled(r)
    /\ WellFormed(request[r].payload)
    /\ \E i \in 1..Len(request[r].payload.items) :
         ~HasAttributesArray(request[r].payload.items[i])
    /\ \E p \in AttributesOf(request[r].payload) :
         SkippedByTotal(Attribute(ValueAt(request[r].payload, p)))
    /\ Cardinality(DispatchedFor(r, "raw")) = 1
    /\ getTotalAttributes(request[r].payload.items) = 1
====
